---- MODULE Spec2Model ----
(***************************************************************************)
(* daily-intervals: setDailyInterval / clearDailyInterval.                 *)
(*                                                                         *)
(* Instants are integers counted in ticks; one minute is TicksPerMin ticks *)
(* (the code counts in ms or ns; the tick is the resolution at which the   *)
(* clock is observed).  The two implementations kept in                    *)
(* src/src/dailyIntervals.js (the Temporal one, lines 1-343, and the Date  *)
(* one, lines 345-679) are both modelled; the variable "variant" says      *)
(* which one a behaviour runs.                                             *)
(***************************************************************************)
EXTENDS Integers, Sequences, FiniteSets, TLC

\* ------------------------------------------------------------------ bounds
\* resolution of the clock: ticks in one minute
TicksPerMin == 2
\* a timer expires at most MaxLate ticks after the delay it was armed with
MaxLate == 1
\* the callback runs for at most MaxCallback ticks
MaxCallback == 1
\* number of system clock changes in one behaviour
MaxJumps == 1
\* the clock advances at most MaxSkew ticks between two reads of one handler
MaxSkew == 2
\* last minute of the observed window: timers that would expire later do not
MaxMinute == 1710
\* inputs of the grid computation checked on its own: -GridRange .. GridRange
GridRange == 12
\* civil minutes (from midnight of day 0) at which setDailyInterval is called
\* when it is checked on its own: FirstCreateMinute .. LastCreateMinute
FirstCreateMinute == 1320
LastCreateMinute == 1620
\* intervals of the grid computation checked on its own: 1 .. GridMaxInterval
GridMaxInterval == 6

\* ------------------------------------------------------- program constants
\* ticks in a minute: 60 * 1000 ms, or 60n * 1000n * 1000n * 1000n ns
conversionFactor == TicksPerMin
minsInOneDay == 60 * 24
nsInADay == conversionFactor * 60 * 24
\* 2 ** 31 - 1 ms, in ticks
maxDelayMs == 2147483647
msInAMin == 60 * 1000
maxDelay == (maxDelayMs \div msInAMin) * TicksPerMin
            + ((maxDelayMs % msInAMin) * TicksPerMin) \div msInAMin

\* ----------------------------------------------------------- arithmetic
Abs(n) == IF n >= 0 THEN n ELSE -n

\* a division that rounds toward minus infinity instead
TruncDivFloors(a, b) == a \div b

\* BigInt division and Math.trunc of a quotient: rounds toward zero
TruncDiv(a, b) == IF a >= 0 THEN a \div b ELSE -((-a) \div b)

\* a % b of JavaScript for b > 0: the sign of the dividend
JsMod(a, b) == a - b * TruncDiv(a, b)

\* the least integer >= (9 * d) / 10: rate * d, for a timer that is never early
CeilRate(d) == IF d <= 0 THEN 0 ELSE (9 * d + 9) \div 10

\* ------------------------------------------------------------ grid math
\* formula(currentTime, interval, epoch, func) with the func of
\* createTimeInterval (Temporal: n >= 0n ? n + interval : n, then BigInt
\* division)
formulaNextBigInt(currentTime, intervalN, epochN) ==
    LET delta == currentTime - epochN
        n == IF delta >= 0 THEN delta + intervalN ELSE delta
    IN  TruncDiv(n, intervalN) * intervalN + epochN

\* formula(currentTime, interval, epoch, func) with the func of
\* setNextIntervalTime (Date: Math.trunc(func(delta / interval)), func adds 1
\* to a quotient >= 0)
formulaNextNumber(currentTime, intervalN, epochN) ==
    LET delta == currentTime - epochN
    IN  IF delta >= 0
        THEN (delta \div intervalN + 1) * intervalN + epochN
        ELSE TruncDiv(delta, intervalN) * intervalN + epochN

\* a time-of-day grid counted from midnight instead of from the anchor
formulaIdentityFromMidnight(currentTime, intervalN, epochN) ==
    TruncDiv(currentTime, intervalN) * intervalN

\* a time-of-day computation with the func of createTimeInterval
formulaIdentityNext(currentTime, intervalN, epochN) ==
    formulaNextNumber(currentTime, intervalN, epochN)

\* formula(currentTime, interval, epoch, (n) => n): the func of
\* adjustIntervalTime, on the time of day
formulaIdentity(currentTime, intervalN, epochN) ==
    TruncDiv(currentTime - epochN, intervalN) * intervalN + epochN

\* a func that steps two intervals on
formulaNextTwoOn(v, currentTime, intervalN, epochN) ==
    formulaNextNumber(currentTime, intervalN, epochN) + intervalN

\* a computation of n that rounds toward minus infinity for every delta
formulaNextFloors(v, currentTime, intervalN, epochN) ==
    LET delta == currentTime - epochN
        n == IF delta >= 0 THEN delta \div intervalN + 1
             ELSE delta \div intervalN
    IN  n * intervalN + epochN

formulaNext(v, currentTime, intervalN, epochN) ==
    IF v = "Temporal"
    THEN formulaNextBigInt(currentTime, intervalN, epochN)
    ELSE formulaNextNumber(currentTime, intervalN, epochN)

\* ------------------------------------------------------------ time zone
\* A zone is [kind, jan, jul]: the UTC offsets (ticks) on January 1 and on
\* July 1.  "spring" switches from jan to jul at Transition, "fall" from jul
\* to jan, "none" never switches.
DayTicks == 1440 * TicksPerMin
HourTicks == 60 * TicksPerMin
\* the instant of the seasonal switch: day 1, 01:00 UTC
Transition == (24 * 60 + 60) * TicksPerMin

Zones == { [kind |-> "none", jan |-> 0, jul |-> 0],
           [kind |-> "spring", jan |-> 0, jul |-> HourTicks],
           [kind |-> "fall", jan |-> 0, jul |-> HourTicks] }

OffsetBefore(z) == IF z.kind = "fall" THEN z.jul ELSE z.jan
OffsetAfter(z) == IF z.kind = "spring" THEN z.jul ELSE z.jan

\* offsetNanoseconds / -getTimezoneOffset() at the instant u
OffsetAt(z, u) ==
    IF z.kind = "none" THEN z.jan
    ELSE IF u < Transition THEN OffsetBefore(z) ELSE OffsetAfter(z)

\* the civil (wall-clock) reading of the instant u, in ticks
Local(z, u) == u + OffsetAt(z, u)

\* civil date-time to instant.  A civil time that exists twice (fall back)
\* resolves to its first occurrence, one that does not exist (spring forward)
\* is read with the offset before the switch: "compatible" of Temporal, and
\* what Date.prototype.setHours does.
ToInstant(z, l) ==
    LET u1 == l - OffsetBefore(z)
        u2 == l - OffsetAfter(z)
        ok1 == z.kind = "none" \/ u1 < Transition
        ok2 == z.kind = "none" \/ u2 >= Transition
    IN  IF ok1 /\ ok2 THEN (IF u1 <= u2 THEN u1 ELSE u2)
        ELSE IF ok1 THEN u1
        ELSE IF ok2 THEN u2
        ELSE u1

\* time.hour / getHours(), time.minute / getMinutes()
getHours(z, u) == (Local(z, u) % DayTicks) \div HourTicks
getMinutes(z, u) == ((Local(z, u) % DayTicks) \div TicksPerMin) % 60

\* withPlainTime({hour, minute}) / setHours(hour, minute) on the date of u;
\* keep is the part below the minute that the call leaves in place
SetTimeOfDay(z, u, hrs, mins, keep) ==
    ToInstant(z, (Local(z, u) \div DayTicks) * DayTicks
                 + (60 * hrs + mins) * TicksPerMin + keep)

withPlainTime(z, u, hrs, mins) == SetTimeOfDay(z, u, hrs, mins, 0)

setHours(z, u, hrs, mins) ==
    SetTimeOfDay(z, u, hrs, mins, Local(z, u) % TicksPerMin)

\* --------------------------------------------------------- conversions
convertTimeToNs(hrs, mins) == (60 * hrs + mins) * conversionFactor

convertNsToHrAndMins(ns) ==
    LET m == TruncDiv(ns, conversionFactor)
    IN  [hrs |-> TruncDiv(m, 60), mins |-> JsMod(m, 60)]

convertMinsToNs(mins) == conversionFactor * mins

getTimeInNs(z, u) == convertTimeToNs(getHours(z, u), getMinutes(z, u))

convertTimeToMins(hour, minute) == 60 * hour + minute

convertMinsToHrAndMin(m) == [hrs |-> TruncDiv(m, 60), mins |-> JsMod(m, 60)]

getTimeInMins(z, u) == convertTimeToMins(getHours(z, u), getMinutes(z, u))

\* ------------------------------------------------------ DST compensator
\* Temporal: | |january.offset| - |july.offset| |
\* Date: the first offset, going back month by month for a year, that
\* differs from the current one: | currentOffset - compareOffset |
getDaylightSavingsOffset(v, z) ==
    IF v = "Temporal"
    THEN Abs(Abs(z.jan) - Abs(z.jul))
    ELSE IF z.kind = "none" THEN 0 ELSE Abs(z.jan - z.jul)

\* the hour and minute adjustIntervalTime rewrites the candidate to
correctIntervalTime(v, z, it, intervalN, ep) ==
    IF v = "Temporal"
    THEN LET adjustedInterval == JsMod(intervalN, nsInADay)
         IN  IF adjustedInterval > 0
             THEN convertNsToHrAndMins(
                      formulaIdentity(getTimeInNs(z, it), adjustedInterval,
                                      convertTimeToNs(ep.hrs, ep.mins)))
             ELSE [hrs |-> ep.hrs, mins |-> ep.mins]
    ELSE LET adjustedInterval ==
                 JsMod(TruncDiv(intervalN, conversionFactor), minsInOneDay)
         IN  IF adjustedInterval = 0
             THEN [hrs |-> ep.hrs, mins |-> ep.mins]
             ELSE convertMinsToHrAndMin(
                      formulaIdentity(getTimeInMins(z, it), adjustedInterval,
                                      convertTimeToMins(ep.hrs, ep.mins)))

\* a rewrite to the anchor's hour and minute whatever the interval
rewriteIntervalTimeToAnchor(v, z, it, intervalN, ep) ==
    IF v = "Temporal"
    THEN withPlainTime(z, it, ep.hrs, ep.mins)
    ELSE setHours(z, it, ep.hrs, ep.mins)

\* the candidate with its time of day rewritten, the date held
rewriteIntervalTime(v, z, it, intervalN, ep) ==
    LET c == correctIntervalTime(v, z, it, intervalN, ep)
    IN  IF v = "Temporal"
        THEN withPlainTime(z, it, c.hrs, c.mins)
        ELSE setHours(z, it, c.hrs, c.mins)

\* deepest nesting of adjustIntervalTime that is followed
MaxDepth == 6
\* the value standing for a recursion deeper than MaxDepth
NoInstant == -1000000

RECURSIVE adjustIntervalTimeRec(_, _, _, _, _, _, _)
RECURSIVE adjustIntervalTimeRecStrict(_, _, _, _, _, _, _)
\* a compensator that advances also when the rewritten instant is the current
\* one
adjustIntervalTimeRecStrict(v, z, it, intervalN, ep, now, depth) ==
    LET t1 == rewriteIntervalTime(v, z, it, intervalN, ep)
        t2 == t1 + getDaylightSavingsOffset(v, z)
    IN  IF t1 <= now
        THEN IF t2 <= now
             THEN IF depth >= MaxDepth
                  THEN NoInstant
                  ELSE adjustIntervalTimeRecStrict(v, z, t2 + intervalN,
                                                   intervalN, ep, now,
                                                   depth + 1)
             ELSE t2
        ELSE t1

\* adjustIntervalTime, depth calls deep
adjustIntervalTimeRec(v, z, it, intervalN, ep, now, depth) ==
    LET t1 == rewriteIntervalTime(v, z, it, intervalN, ep)
        t2 == t1 + getDaylightSavingsOffset(v, z)
    IN  IF t1 < now
        THEN IF t2 <= now
             THEN IF depth >= MaxDepth
                  THEN NoInstant
                  ELSE adjustIntervalTimeRec(v, z, t2 + intervalN, intervalN,
                                             ep, now, depth + 1)
             ELSE t2
        ELSE t1

adjustIntervalTime(v, z, it, intervalN, ep, now) ==
    adjustIntervalTimeRec(v, z, it, intervalN, ep, now, 0)

\* the nested calls adjustIntervalTime makes of itself before it returns
RECURSIVE adjustIntervalTimeDepth(_, _, _, _, _, _, _)
adjustIntervalTimeDepth(v, z, it, intervalN, ep, now, depth) ==
    LET t1 == rewriteIntervalTime(v, z, it, intervalN, ep)
        t2 == t1 + getDaylightSavingsOffset(v, z)
    IN  IF t1 < now /\ t2 <= now /\ depth < MaxDepth
        THEN adjustIntervalTimeDepth(v, z, t2 + intervalN, intervalN, ep, now,
                                     depth + 1)
        ELSE depth

\* createTimeInterval / setNextIntervalTime: the coarse grid point, then the
\* compensator
createTimeInterval(v, z, intervalN, ep, now) ==
    adjustIntervalTime(v, z, formulaNext(v, now, intervalN, ep.UTCValue),
                       intervalN, ep, now)

\* the anchor's instant on the civil date of now
createEpoch(z, hrs, mins, now) ==
    [UTCValue |-> withPlainTime(z, now, hrs, mins), hrs |-> hrs, mins |-> mins]

\* a delay that is capped after the rate is applied
calculateDelayClampsAfterRate(it, currentTime) ==
    LET difference == it - currentTime
    IN  IF CeilRate(difference) > maxDelay THEN maxDelay
        ELSE CeilRate(difference)

\* the ticks until the timer armed for intervalTime expires: rate * the
\* remaining duration, capped at maxDelay
calculateDelay(it, currentTime) ==
    LET difference == it - currentTime
    IN  IF difference > maxDelay THEN CeilRate(maxDelay) ELSE CeilRate(difference)

\* ------------------------------------------------------------- the state
VARIABLES
    variant,      \* "Temporal" | "Date": which implementation runs
    zone,         \* the time zone of the process
    wall,         \* the system clock (an instant)
    jumps,        \* system clock changes so far
    newID,        \* let newID
    IDs,          \* const IDs: per id "absent", or whether the handle stored is
                  \* that of the pending timer ("current") or of one that has
                  \* expired ("fired")
    timer,        \* per id: ticks until its pending setTimeout expires, NoTimer
    interval,     \* per id: the closure's interval
    intervalTime, \* per id: the closure's intervalTime (nextFireInstant)
    epoch,        \* per id: the closure's epoch {UTCValue, hrs, mins}
    running,      \* the id whose callback is being run by its handler, or 0
    hnow,         \* the instant the running handler read at its start
    cancelled,    \* per id: how the last effective clearDailyInterval found it
    sinceCancel,  \* per id: callback invoked since that clearDailyInterval
    lastF,        \* per id: the nextFireInstant of the last callback invocation
    prevF,        \* per id: the one before
    ev,           \* the last step of a schedule or of the clock: [kind, id, now, F]
    idLimit,      \* setDailyInterval calls in this behaviour
    outstanding,  \* per id: its setTimeout timers neither expired nor cleared
    arg,          \* the interval argument of the last setDailyInterval call
    gState, gCur, gEpoch, gInt, gOut, gTod,  \* grid computation on its own
    daily,        \* a DailyInterval object and its timeout
    delay         \* calculateDelay on its own: [state, intervalTime,
                  \* currentTime, out]

gridVars == <<gState, gCur, gEpoch, gInt, gOut, gTod, daily, delay>>
histVars == <<cancelled, sinceCancel, lastF, prevF>>
vars == <<variant, zone, wall, jumps, newID, IDs, timer, interval,
          intervalTime, epoch, running, hnow, cancelled, sinceCancel,
          lastF, prevF, ev, idLimit, outstanding, arg,
          gState, gCur, gEpoch, gInt, gOut, gTod, daily, delay>>

\* the ids of the model; idLimit of them are issued in a behaviour
Ids == {1, 2}
NoTimer == 0 - 1
Never == 0 - 1
MaxTime == MaxMinute * TicksPerMin

\* civil minutes (from midnight of day 0) at which the process starts
StartMinutes == { 22 * 60 + 34, 23 * 60, 24 * 60 + 30 }
\* setDailyInterval(callback, interval, startingTime): the interval argument
IntervalArgs == { 60, 120, 420, 1440 }
\* ... and the parsed startingTime argument
StartingTimes == { [hrs |-> 1, mins |-> 0], [hrs |-> 0, mins |-> 30],
                   [hrs |-> 1, mins |-> 30], [hrs |-> 23, mins |-> 0] }
\* system clock changes, in minutes
JumpMinutes == { 0 - 150, 120 }

NoEpoch == [UTCValue |-> 0, hrs |-> 0, mins |-> 0]
Event(k, id, now, f) == [kind |-> k, id |-> id, now |-> now, F |-> f]

\* a DailyInterval object as its constructor leaves it (not in use)
NoDaily == [state |-> "off", interval |-> 1, intervalStartTime |-> 0,
            currentTime |-> 0, currentMs |-> 0, currentInterval |-> 0,
            timeRemaining |-> 0, pending |-> 0, rem |-> 0,
            handle |-> "undefined", clock |-> 0, ranAtStart |-> FALSE,
            stopped |-> "no", ranSinceStop |-> FALSE]

\* no calculateDelay computation on its own
NoDelay == [state |-> "off", intervalTime |-> 0, currentTime |-> 0, out |-> 0]

GridIdle ==
    /\ gState = "off" /\ gCur = 0 /\ gEpoch = 0 /\ gInt = 1
    /\ gOut = 0 /\ gTod = 0 /\ daily = NoDaily /\ delay = NoDelay

Idle ==
    /\ jumps = 0
    /\ newID = 1
    /\ IDs = [i \in Ids |-> "absent"]
    /\ timer = [i \in Ids |-> NoTimer]
    /\ interval = [i \in Ids |-> 0]
    /\ intervalTime = [i \in Ids |-> 0]
    /\ epoch = [i \in Ids |-> NoEpoch]
    /\ running = 0
    /\ hnow = 0
    /\ cancelled = [i \in Ids |-> "no"]
    /\ sinceCancel = [i \in Ids |-> FALSE]
    /\ lastF = [i \in Ids |-> Never]
    /\ prevF = [i \in Ids |-> Never]
    /\ ev = Event("init", 0, wall, 0)
    /\ outstanding = [i \in Ids |-> 0]
    /\ arg = 0

\* one schedule, every zone, both implementations
Init ==
    /\ variant \in {"Temporal", "Date"}
    /\ zone \in Zones
    /\ \E m \in StartMinutes : wall = ToInstant(zone, m * TicksPerMin)
    /\ idLimit = 1
    /\ Idle
    /\ GridIdle

\* a customInterval that calls setTimeout twice and stores the second handle
customIntervalArmsTwice(pending, out, id, it, currentTime) ==
    /\ timer' = [pending EXCEPT ![id] = calculateDelay(it, currentTime)]
    /\ IDs' = [IDs EXCEPT ![id] = "current"]
    /\ outstanding' = [out EXCEPT ![id] = @ + 2]

\* customInterval(...): IDs.set(ID, setTimeout(handler, delay)), with the
\* timers pending and the timers outstanding at the call.  A compensator that
\* never returned (NoInstant) arms nothing.
customInterval(pending, out, id, it, currentTime) ==
    IF it = NoInstant
    THEN /\ timer' = [pending EXCEPT ![id] = NoTimer]
         /\ IDs' = [IDs EXCEPT ![id] = IF @ = "current" THEN "fired" ELSE @]
         /\ outstanding' = out
    ELSE /\ timer' = [pending EXCEPT ![id] = calculateDelay(it, currentTime)]
         /\ IDs' = [IDs EXCEPT ![id] = "current"]
         /\ outstanding' = [out EXCEPT ![id] = @ + 1]

\* a clamp that mirrors the argument at 1 instead
clampIntervalMirrors(intervalArg) ==
    IF intervalArg < 1 THEN 1 - intervalArg ELSE intervalArg

\* if (interval < 1) { interval = 1; }
clampInterval(intervalArg) == IF intervalArg < 1 THEN 1 ELSE intervalArg

\* a setDailyInterval that returns newID without the increment
setDailyIntervalKeepsCounter(intervalArg, startingTime) ==
    LET id == newID
        iv == convertMinsToNs(clampInterval(intervalArg))
        ep == createEpoch(zone, startingTime.hrs, startingTime.mins, wall)
        it == createTimeInterval(variant, zone, iv, ep, wall)
    IN  /\ newID <= idLimit
        /\ interval' = [interval EXCEPT ![id] = iv]
        /\ epoch' = [epoch EXCEPT ![id] = ep]
        /\ intervalTime' = [intervalTime EXCEPT ![id] = it]
        /\ customInterval(timer, outstanding, id, it, wall)
        /\ newID' = newID
        /\ arg' = intervalArg
        /\ ev' = Event("create", id, wall, it)
        /\ UNCHANGED <<variant, zone, wall, jumps, running, hnow, histVars,
                       idLimit, gridVars>>

\* setDailyInterval(callback, interval, startingTime)
setDailyInterval(intervalArg, startingTime) ==
    LET id == newID
        iv == convertMinsToNs(clampInterval(intervalArg))
        ep == createEpoch(zone, startingTime.hrs, startingTime.mins, wall)
        it == createTimeInterval(variant, zone, iv, ep, wall)
    IN  /\ newID <= idLimit
        /\ interval' = [interval EXCEPT ![id] = iv]
        /\ epoch' = [epoch EXCEPT ![id] = ep]
        /\ intervalTime' = [intervalTime EXCEPT ![id] = it]
        /\ customInterval(timer, outstanding, id, it, wall)
        /\ newID' = newID + 1
        /\ arg' = intervalArg
        /\ ev' = Event("create", id, wall, it)
        /\ UNCHANGED <<variant, zone, wall, jumps, running, hnow, histVars,
                       idLimit, gridVars>>

\* the value standing for NaN, and for the invalid Date
NaNValue == 0 - 3000000
\* the ticks after which a setTimeout(handler, NaN) expires: the delay is
\* taken as 1 ms
NaNDelay == 1

\* setDailyInterval(callback, interval, startingTime) with a startingTime
\* whose components parseInt reads as NaN.
\*   Temporal: convertTimeToNs calls BigInt(NaN), a RangeError, whenever
\*   interval % nsInADay > 0; otherwise only withPlainTime({hour: NaN,
\*   minute: NaN}) sees the NaN, which the Temporal build either rejects with
\*   a RangeError or reads as 0 (lenient).
\*   Date: setHours(NaN, NaN, 0, 0) gives NaN, every later comparison is
\*   false, setTimeout is armed with the delay NaN.
setDailyIntervalMalformed(intervalArg, lenient) ==
    LET id == newID
        iv == convertMinsToNs(clampInterval(intervalArg))
        ep0 == createEpoch(zone, 0, 0, wall)
        it0 == createTimeInterval(variant, zone, iv, ep0, wall)
    IN  /\ newID <= idLimit
        /\ arg' = intervalArg
        /\ IF variant = "Temporal" /\ (JsMod(iv, nsInADay) > 0 \/ ~lenient)
           THEN /\ ev' = Event("RangeError", 0, wall, 0)
                /\ UNCHANGED <<newID, IDs, timer, outstanding, interval,
                               intervalTime, epoch>>
           ELSE IF variant = "Temporal"
           THEN /\ interval' = [interval EXCEPT ![id] = iv]
                /\ epoch' = [epoch EXCEPT ![id] =
                                [ep0 EXCEPT !.hrs = NaNValue, !.mins = NaNValue]]
                /\ intervalTime' = [intervalTime EXCEPT ![id] = it0]
                /\ customInterval(timer, outstanding, id, it0, wall)
                /\ newID' = newID + 1
                /\ ev' = Event("malformed", id, wall, it0)
           ELSE /\ interval' = [interval EXCEPT ![id] = iv]
                /\ epoch' = [epoch EXCEPT ![id] =
                                [UTCValue |-> NaNValue, hrs |-> NaNValue,
                                 mins |-> NaNValue]]
                /\ intervalTime' = [intervalTime EXCEPT ![id] = NaNValue]
                /\ timer' = [timer EXCEPT ![id] = NaNDelay]
                /\ IDs' = [IDs EXCEPT ![id] = "current"]
                /\ outstanding' = [outstanding EXCEPT ![id] = @ + 1]
                /\ newID' = newID + 1
                /\ ev' = Event("malformed", id, wall, NaNValue)
        /\ UNCHANGED <<variant, zone, wall, jumps, running, hnow, histVars,
                       idLimit, gridVars>>

\* with more than one schedule in a behaviour, the arguments are these
TwoIntervalArgs == { 1440 }
TwoStartingTimes == { [hrs |-> 1, mins |-> 0] }

Create ==
    \E a \in IntervalArgs, s \in StartingTimes :
        /\ idLimit > 1 => (a \in TwoIntervalArgs /\ s \in TwoStartingTimes)
        /\ setDailyInterval(a, s)

\* a clearTimeout that, handed undefined, clears every pending timer
clearTimeoutOfAll(pending, ids, id) ==
    IF ids[id] = "absent" THEN [j \in Ids |-> NoTimer]
    ELSE [pending EXCEPT ![id] = IF ids[id] = "current" THEN NoTimer ELSE @]

\* clearTimeout(IDs.get(ID)) on the pending timers: the handle stored for the
\* id is that of a pending timer ("current"), of one that has expired
\* ("fired"), or there is none and undefined is handed over ("absent")
clearTimeout(pending, ids, id) ==
    [pending EXCEPT ![id] = IF ids[id] = "current" THEN NoTimer ELSE @]

\* the timers outstanding after that clearTimeout
clearTimeoutCount(out, ids, id) ==
    [out EXCEPT ![id] = IF ids[id] = "current" THEN @ - 1 ELSE @]

\* IDs.delete(ID)
IDsDelete(ids, id) == [ids EXCEPT ![id] = "absent"]

\* a clearDailyInterval that forgets the entry and leaves the timer pending
clearDailyIntervalKeepsTimer(id) ==
    /\ timer' = timer
    /\ outstanding' = outstanding
    /\ IDs' = [IDs EXCEPT ![id] = "absent"]
    /\ cancelled' = [cancelled EXCEPT ![id] =
                        IF timer[id] # NoTimer THEN "armed"
                        ELSE IF running = id THEN "firing"
                        ELSE @]
    /\ sinceCancel' = [sinceCancel EXCEPT ![id] =
                          IF timer[id] # NoTimer \/ running = id
                          THEN FALSE ELSE @]
    /\ UNCHANGED <<variant, zone, wall, jumps, newID, interval, intervalTime,
                   epoch, running, hnow, lastF, prevF, ev, idLimit, arg,
                   gridVars>>

\* clearDailyInterval(ID): clearTimeout(IDs.get(ID)); IDs.delete(ID)
clearDailyInterval(id) ==
    /\ timer' = clearTimeout(timer, IDs, id)
    /\ outstanding' = clearTimeoutCount(outstanding, IDs, id)
    /\ IDs' = IDsDelete(IDs, id)
    /\ cancelled' = [cancelled EXCEPT ![id] =
                        IF timer[id] # NoTimer THEN "armed"
                        ELSE IF running = id THEN "firing"
                        ELSE @]
    /\ sinceCancel' = [sinceCancel EXCEPT ![id] =
                          IF timer[id] # NoTimer \/ running = id
                          THEN FALSE ELSE @]
    /\ UNCHANGED <<variant, zone, wall, jumps, newID, interval, intervalTime,
                   epoch, running, hnow, lastF, prevF, ev, idLimit, arg,
                   gridVars>>

Cancel == \E id \in Ids : clearDailyInterval(id)

\* the time e passes for every pending timer but that of id
Elapse(id, e) ==
    [i \in Ids |-> IF i = id \/ timer[i] = NoTimer THEN timer[i]
                   ELSE IF timer[i] > e THEN timer[i] - e ELSE 0]

\* a handler that also rebuilds when the advanced intervalTime is the instant
\* it read
HandlerBranchRebuildsAtEqual(F, I, now) ==
    IF F <= now
    THEN IF F + I <= now THEN "forward" ELSE "callback"
    ELSE IF F - now > I THEN "backward" ELSE "early"

\* a handler that rebuilds whenever it wakes before intervalTime
HandlerBranchRebuildsEarly(F, I, now) ==
    IF F <= now
    THEN IF F + I < now THEN "forward" ELSE "callback"
    ELSE "backward"

\* a handler that invokes the callback also when it wakes before intervalTime
HandlerBranchCallsEarly(F, I, now) ==
    IF F <= now
    THEN IF F + I < now THEN "forward" ELSE "callback"
    ELSE IF F - now > I THEN "backward" ELSE "callback"

\* a handler that takes an expiry one timer unit before intervalTime as due
HandlerBranchToleratesEarly(F, I, now) ==
    IF F <= now + 1
    THEN IF F + I < now THEN "forward" ELSE "callback"
    ELSE IF F - now > I THEN "backward" ELSE "early"

\* a handler that never finds the time of the callback come
HandlerBranchNeverDue(F, I, now) ==
    IF F <= now
    THEN IF F + I < now THEN "forward" ELSE "early"
    ELSE IF F - now > I THEN "backward" ELSE "early"

\* the branch the handler takes on reading the instant now:
\*   if (intervalTime <= now) { intervalTime += interval;
\*       if (intervalTime < now) rebuild else callback() }
\*   else if (intervalTime - now > interval) rebuild
HandlerBranch(F, I, now) ==
    IF F <= now
    THEN IF F + I < now THEN "forward" ELSE "callback"
    ELSE IF F - now > I THEN "backward" ELSE "early"

\* a rebuild that keeps the anchor's instant of the day the schedule was made
RebuildKeepsEpoch(id, now) ==
    [ep |-> epoch[id],
     it |-> createTimeInterval(variant, zone, interval[id], epoch[id], now)]

\* a rebuild that takes the current hour and minute for the anchor
RebuildMovesAnchor(id, now) ==
    LET ep == createEpoch(zone, getHours(zone, now), getMinutes(zone, now), now)
    IN  [ep |-> ep,
         it |-> createTimeInterval(variant, zone, interval[id], ep, now)]

\* the schedule rebuilt from the current instant (both branches that find the
\* system time changed by more than the interval)
Rebuild(id, now) ==
    LET ep == createEpoch(zone, epoch[id].hrs, epoch[id].mins, now)
    IN  [ep |-> ep,
         it |-> createTimeInterval(variant, zone, interval[id], ep, now)]

\* the setTimeout handler of customInterval, up to the callback's invocation
\* or, on the branches without one, to the end
Expire(id, late) ==
    LET e == timer[id] + late
        now == wall + e
        F == intervalTime[id]
        I == interval[id]
        rest == Elapse(id, e)
        out == [outstanding EXCEPT ![id] = @ - 1]
        branch == HandlerBranch(F, I, now)
    IN  /\ running = 0
        /\ timer[id] # NoTimer
        /\ \A j \in Ids : timer[j] # NoTimer => timer[id] <= timer[j]
        /\ now <= MaxTime
        /\ wall' = now
        /\ ev' = Event(branch, id, now, F)
        /\ IF branch = "callback"
           THEN \* intervalTime advanced, callback() entered
                /\ intervalTime' = [intervalTime EXCEPT ![id] = F + I]
                /\ timer' = [rest EXCEPT ![id] = NoTimer]
                /\ IDs' = [IDs EXCEPT ![id] =
                              IF @ = "current" THEN "fired" ELSE @]
                /\ outstanding' = out
                /\ running' = id
                /\ hnow' = now
                /\ sinceCancel' = [sinceCancel EXCEPT ![id] = TRUE]
                /\ prevF' = [prevF EXCEPT ![id] = lastF[id]]
                /\ lastF' = [lastF EXCEPT ![id] = F]
                /\ UNCHANGED <<epoch, cancelled>>
           ELSE IF branch = "early"
           THEN \* woken early: customInterval arms again
                /\ customInterval(rest, out, id, F, now)
                /\ UNCHANGED <<epoch, intervalTime, running, hnow, histVars>>
           ELSE \* "forward" or "backward": the system time changed by more
                \* than the interval; rebuild, then customInterval
                LET r == Rebuild(id, now)
                IN  /\ epoch' = [epoch EXCEPT ![id] = r.ep]
                    /\ intervalTime' = [intervalTime EXCEPT ![id] = r.it]
                    /\ customInterval(rest, out, id, r.it, now)
                    /\ UNCHANGED <<running, hnow, histVars>>
        /\ UNCHANGED <<variant, zone, jumps, newID, interval, idLimit, arg,
                       gridVars>>

TimerExpires == \E id \in Ids, late \in 0 .. MaxLate : Expire(id, late)

\* the rest of the handler once the callback has returned, dur ticks later:
\* the compensator, then customInterval.  The Temporal implementation reads
\* the clock again, the Date one keeps the instant read at the start.
CallbackReturns(id, dur) ==
    LET cur == IF variant = "Temporal" THEN wall + dur ELSE hnow
        it == adjustIntervalTime(variant, zone, intervalTime[id], interval[id],
                                 epoch[id], cur)
        rest == Elapse(id, dur)
    IN  /\ running = id
        /\ wall + dur <= MaxTime
        /\ wall' = wall + dur
        /\ intervalTime' = [intervalTime EXCEPT ![id] = it]
        /\ customInterval(rest, outstanding, id, it, cur)
        /\ running' = 0
        /\ ev' = Event("fired", id, cur, it)
        /\ UNCHANGED <<variant, zone, jumps, newID, interval, epoch, hnow,
                       histVars, idLimit, arg, gridVars>>

HandlerEnds == \E id \in Ids, dur \in 0 .. MaxCallback : CallbackReturns(id, dur)

\* the system clock is set j minutes forward or back while a timer is pending
\* and no handler runs
ClockJump ==
    \E j \in JumpMinutes :
        /\ running = 0
        /\ \E id \in Ids : timer[id] # NoTimer
        /\ jumps < MaxJumps
        /\ wall + j * TicksPerMin >= 0
        /\ wall + j * TicksPerMin <= MaxTime
        /\ wall' = wall + j * TicksPerMin
        /\ jumps' = jumps + 1
        /\ ev' = Event("jump", 0, wall', 0)
        /\ UNCHANGED <<variant, zone, newID, IDs, timer, interval,
                       intervalTime, epoch, running, hnow, histVars, idLimit,
                       outstanding, arg, gridVars>>

Next == Create \/ Cancel \/ TimerExpires \/ HandlerEnds \/ ClockJump

Spec == Init /\ [][Next]_vars

\* ------------------------------------------------------ two schedules
\* two setDailyInterval calls in a behaviour, made at any point of it (between
\* timers, from inside a callback, after a clearDailyInterval), in a zone
\* without seasonal switch
InitTwo ==
    /\ variant \in {"Temporal", "Date"}
    /\ zone = [kind |-> "none", jan |-> 0, jul |-> 0]
    /\ wall = ToInstant(zone, (22 * 60 + 34) * TicksPerMin)
    /\ idLimit = 2
    /\ Idle
    /\ GridIdle

SpecTwo == InitTwo /\ [][Next]_vars

\* ------------------------------------------- the grid computation alone
\* formula() applied to every current time, anchor and interval of a range,
\* by both implementations; the unit is whatever the three are counted in
schedIdleVars == <<zone, wall, jumps, newID, IDs, timer, interval,
                   intervalTime, epoch, running, hnow, cancelled, sinceCancel,
                   lastF, prevF, ev, idLimit, outstanding, arg>>

InitGrid ==
    /\ variant \in {"Temporal", "Date"}
    /\ zone = [kind |-> "none", jan |-> 0, jul |-> 0]
    /\ wall = 0
    /\ idLimit = 0
    /\ Idle
    /\ gState = "input"
    /\ gCur \in (0 - GridRange) .. GridRange
    /\ gEpoch \in (0 - GridRange) .. GridRange
    /\ gInt \in 1 .. GridMaxInterval
    /\ gOut = 0
    /\ gTod = 0
    /\ daily = NoDaily
    /\ delay = NoDelay

\* createTimeInterval / setNextIntervalTime: the coarse candidate
GridNext ==
    /\ gState = "input"
    /\ gOut' = formulaNext(variant, gCur, gInt, gEpoch)
    /\ gState' = "next"
    /\ UNCHANGED <<variant, schedIdleVars, gCur, gEpoch, gInt, gTod, daily,
                   delay>>

\* adjustIntervalTime: the same computation with the identity func
GridIdentity ==
    /\ gState = "next"
    /\ gTod' = formulaIdentity(gCur, gInt, gEpoch)
    /\ gState' = "identity"
    /\ UNCHANGED <<variant, schedIdleVars, gCur, gEpoch, gInt, gOut, daily,
                   delay>>

NextGrid == GridNext \/ GridIdentity

SpecGrid == InitGrid /\ [][NextGrid]_vars

\* ------------------------------------------------ the DailyInterval class
\* One object, in a zone without seasonal switch.  daily.clock is the system
\* clock, daily.rem the ticks until the pending timeout expires, daily.handle
\* tells whether #timeoutID is undefined or the handle of the pending
\* ("current") or of an expired ("fired") timeout.  stopped, ranSinceStop and
\* runs record what has happened: how the last stop() found the object,
\* whether the user function was executed since; ranAtStart whether start()
\* executed it.
DailyIntervalArgs == { 0 - 120, 120, 420, 1440, 1500 }
DailyStartTimes == { 60, 22 * 60, 23 * 60 }
DailyClockMinutes == { 60, 22 * 60, 22 * 60 + 34, 23 * 60 }
\* the clock reading (minutes) up to which the object is followed
MaxDailyMinute == 3300

\* set interval(newInterval)
dailySetInterval(newInterval) == IF newInterval < 1 THEN 1 ELSE newInterval

\* the clock reading (minutes) up to which an object of that interval is
\* followed: at most DailyFires intervals
DailyFires == 4
DailyHorizon(d) ==
    IF DailyFires * d.interval + 24 * 60 < MaxDailyMinute
    THEN DailyFires * d.interval + 24 * 60
    ELSE MaxDailyMinute

\* #updateTime, then #calcNextIntervalTime
dailyCalcNextIntervalTime(d, now) ==
    LET currentTime == (now % DayTicks) \div TicksPerMin
        delta0 == currentTime - d.intervalStartTime
        delta == IF delta0 < 0 THEN delta0 + 1440 ELSE delta0
    IN  [d EXCEPT
           !.currentTime = currentTime,
           !.currentMs = now % TicksPerMin,
           !.currentInterval =
               ((TruncDiv(delta, d.interval) + 1) * d.interval
                + d.intervalStartTime) % 1440]

\* #getMsUntilIntervalTime (the offset is 0)
dailyGetMsUntilIntervalTime(d) ==
    LET delta0 == d.currentInterval - d.currentTime
        delta == IF delta0 = 0 THEN d.interval
                 ELSE IF delta0 < 0
                 THEN delta0 + (TruncDiv(0 - delta0, d.interval) + 1) * d.interval
                 ELSE delta0
    IN  [d EXCEPT !.timeRemaining = TicksPerMin * delta - d.currentMs]

\* #createInterval at the instant now
dailyCreateInterval(d, now) ==
    LET c == dailyGetMsUntilIntervalTime(dailyCalcNextIntervalTime(d, now))
    IN  [c EXCEPT !.rem = c.timeRemaining,
                  !.pending = @ + 1,
                  !.handle = "current",
                  !.state = "armed",
                  !.clock = now]

InitDaily ==
    /\ variant = "Date"
    /\ zone = [kind |-> "none", jan |-> 0, jul |-> 0]
    /\ wall = 0
    /\ idLimit = 0
    /\ Idle
    /\ gState = "off" /\ gCur = 0 /\ gEpoch = 0 /\ gInt = 1
    /\ gOut = 0 /\ gTod = 0 /\ delay = NoDelay
    /\ \E i \in DailyIntervalArgs, st \in DailyStartTimes,
          m \in DailyClockMinutes, t \in 0 .. TicksPerMin - 1 :
           daily = [NoDaily EXCEPT !.state = "new",
                                   !.interval = dailySetInterval(i),
                                   !.intervalStartTime = st,
                                   !.clock = m * TicksPerMin + t]

\* start(executeNow)
dailyStart(executeNow) ==
    /\ daily.state = "new"
    /\ daily' = [dailyCreateInterval(daily, daily.clock) EXCEPT
                    !.ranAtStart = executeNow]
    /\ UNCHANGED <<variant, schedIdleVars, gState, gCur, gEpoch, gInt, gOut,
                   gTod, delay>>

DailyStart == \E executeNow \in BOOLEAN : dailyStart(executeNow)

\* the timeout expires, late ticks after its delay: the handler calls #func
dailyExpire(late) ==
    LET now == daily.clock + daily.rem + late
    IN  /\ daily.state = "armed"
        /\ daily.pending > 0
        /\ now <= DailyHorizon(daily) * TicksPerMin
        /\ daily' = [daily EXCEPT
                        !.clock = now,
                        !.state = "running",
                        !.pending = @ - 1,
                        !.rem = 0,
                        !.handle = IF @ = "current" THEN "fired" ELSE @,
                        !.ranAtStart = FALSE,
                        !.ranSinceStop = (daily.stopped # "no")]
        /\ UNCHANGED <<variant, schedIdleVars, gState, gCur, gEpoch, gInt,
                       gOut, gTod, delay>>

DailyExpire == \E late \in 0 .. MaxLate : dailyExpire(late)

\* #func returns, dur ticks later: the handler calls #createInterval
dailyFuncReturns(dur) ==
    /\ daily.state \in {"running", "stoppedRunning"}
    /\ daily.clock + dur <= DailyHorizon(daily) * TicksPerMin
    /\ daily' = dailyCreateInterval(daily, daily.clock + dur)
    /\ UNCHANGED <<variant, schedIdleVars, gState, gCur, gEpoch, gInt, gOut,
                   gTod, delay>>

DailyFuncReturns == \E dur \in 0 .. MaxCallback : dailyFuncReturns(dur)

\* stop(), between timeouts or from inside #func
DailyStop ==
    /\ daily.state \in {"armed", "running"}
    /\ daily' = [daily EXCEPT
                    !.pending = IF daily.handle = "current" THEN @ - 1 ELSE @,
                    !.rem = IF daily.handle = "current" THEN 0 ELSE @,
                    !.currentTime = 0,
                    !.currentMs = 0,
                    !.currentInterval = 0,
                    !.handle = "undefined",
                    !.timeRemaining = 0,
                    !.state = IF daily.state = "running"
                              THEN "stoppedRunning" ELSE "stopped",
                    !.stopped = IF daily.state = "running"
                                THEN "firing" ELSE "armed",
                    !.ranSinceStop = FALSE]
    /\ UNCHANGED <<variant, schedIdleVars, gState, gCur, gEpoch, gInt, gOut,
                   gTod, delay>>

NextDaily == DailyStart \/ DailyExpire \/ DailyFuncReturns \/ DailyStop

SpecDaily == InitDaily /\ [][NextDaily]_vars

\* ---------------------------------------------- setDailyInterval alone
\* one setDailyInterval call at every tick of a window around the seasonal
\* switch, in every zone, by both implementations
InitCreate ==
    /\ variant \in {"Temporal", "Date"}
    /\ zone \in Zones
    /\ \E m \in FirstCreateMinute .. LastCreateMinute, t \in 0 .. TicksPerMin - 1 :
           wall = ToInstant(zone, m * TicksPerMin + t)
    /\ idLimit = 1
    /\ Idle
    /\ GridIdle

\* the interval arguments of these calls: those of IntervalArgs, one minute,
\* and values below one minute
CreateIntervalArgs == IntervalArgs \cup { 0 - 2, 0 - 1, 0, 1 }

CreateAny ==
    \E a \in CreateIntervalArgs, s \in StartingTimes : setDailyInterval(a, s)

CreateMalformed ==
    \E a \in CreateIntervalArgs, lenient \in BOOLEAN :
        setDailyIntervalMalformed(a, lenient)

SpecCreate == InitCreate /\ [][CreateAny \/ CreateMalformed]_vars

\* ------------------------------------------- late handlers, long callbacks
\* one schedule, every zone, both implementations; the event loop is busy for
\* up to more than an interval when a timer expires, and the callback runs
\* for up to several intervals.  The schedule is followed up to its second
\* callback invocation.
LateMinutes == { 0, 1, 45, 119 }
CallbackMinutes == { 0, 1, 61, 200 }

TimerExpiresLate ==
    \E id \in Ids, late \in LateMinutes :
        /\ prevF[id] = Never
        /\ Expire(id, late * TicksPerMin)

HandlerEndsLate ==
    \E id \in Ids, dur \in CallbackMinutes :
        CallbackReturns(id, dur * TicksPerMin)

NextLate == Create \/ TimerExpiresLate \/ HandlerEndsLate

SpecLate == Init /\ [][NextLate]_vars

\* ------------------------------------------------------------ progress
\* one schedule that is never cancelled, the system clock never set: a
\* pending timer expires in the end (the event loop runs its handler) and a
\* callback that was invoked returns
NextLive == Create \/ TimerExpires \/ HandlerEnds

SpecLive ==
    /\ Init
    /\ [][NextLive]_vars
    /\ WF_vars(TimerExpires)
    /\ WF_vars(HandlerEnds)

\* ------------------------------------- intervals that do not divide a day
\* setDailyInterval with intervals of which a day is no multiple, in a zone
\* without seasonal switch; every timer expires when its delay has passed
OddIntervalArgs == { 50, 100, 420 }

InitOdd == Init /\ zone.kind = "none"

CreateOdd ==
    \E a \in OddIntervalArgs, s \in StartingTimes : setDailyInterval(a, s)

TimerExpiresOnTime == \E id \in Ids : Expire(id, 0)

NextOdd == CreateOdd \/ TimerExpiresOnTime \/ HandlerEnds

SpecOdd == InitOdd /\ [][NextOdd]_vars

\* ------------------------------------------- the clock reads of a handler
\* The Temporal implementation reads the clock more than once in a handler
\* that invokes no callback: for the branch (const time), and again in
\* calculateDelay(intervalTime.epochMilliseconds), skew ticks later.
ExpireAs(id, late, skew, branch) ==
    LET e == timer[id] + late
        now == wall + e
        F == intervalTime[id]
        rest == Elapse(id, e + skew)
        out == [outstanding EXCEPT ![id] = @ - 1]
    IN  /\ running = 0
        /\ timer[id] # NoTimer
        /\ \A j \in Ids : timer[j] # NoTimer => timer[id] <= timer[j]
        /\ now + skew <= MaxTime
        /\ branch # "callback"
        /\ wall' = now + skew
        /\ ev' = Event(branch, id, now, F)
        /\ IF branch = "early"
           THEN /\ customInterval(rest, out, id, F, now + skew)
                /\ UNCHANGED <<epoch, intervalTime>>
           ELSE LET r == Rebuild(id, now)
                IN  /\ epoch' = [epoch EXCEPT ![id] = r.ep]
                    /\ intervalTime' = [intervalTime EXCEPT ![id] = r.it]
                    /\ customInterval(rest, out, id, r.it, now + skew)
        /\ UNCHANGED <<variant, zone, jumps, newID, interval, idLimit, arg,
                       running, hnow, histVars, gridVars>>

ExpireSlow(id, late, skew) ==
    /\ variant = "Temporal"
    /\ ExpireAs(id, late, skew,
                HandlerBranch(intervalTime[id], interval[id],
                              wall + timer[id] + late))

TimerExpiresSlowly ==
    \E id \in Ids, late \in 0 .. MaxLate, skew \in 1 .. MaxSkew :
        ExpireSlow(id, late, skew)

NextSkew == Create \/ TimerExpires \/ HandlerEnds \/ TimerExpiresSlowly

SpecSkew == Init /\ [][NextSkew]_vars

\* ------------------------------------ the implementation with minutes
\* The earlier Temporal implementation keeps the interval in minutes
\* (setDailyInterval hands the argument on as it is) and intervalTime as a
\* ZonedDateTime.  Its handler advances intervalTime with
\* intervalTime.add({ minutes: interval }) and tests
\* intervalTime.epochNanoseconds - time > interval for a clock set back.
\* The instants of the model are ticks of msInATick * nsInAMs nanoseconds:
\* (F - now) * msInATick * nsInAMs > mins is decided without the product.
msInATick == msInAMin \div TicksPerMin
nsInAMs == 1000 * 1000

customIntervalMinsBranch(F, mins, now) ==
    IF F <= now
    THEN IF F + mins * conversionFactor < now THEN "forward" ELSE "callback"
    ELSE IF (F - now) * msInATick > mins \div nsInAMs THEN "backward"
         ELSE "early"

ExpireMins(id, late) ==
    LET now == wall + timer[id] + late
        F == intervalTime[id]
        branch == customIntervalMinsBranch(F, interval[id] \div conversionFactor,
                                           now)
    IN  IF timer[id] # NoTimer /\ branch # HandlerBranch(F, interval[id], now)
        THEN ExpireAs(id, late, 0, branch)
        ELSE Expire(id, late)

TimerExpiresMins == \E id \in Ids, late \in 0 .. MaxLate : ExpireMins(id, late)

InitMins == Init /\ variant = "Temporal"

NextMins == Create \/ TimerExpiresMins \/ HandlerEnds

SpecMins == InitMins /\ [][NextMins]_vars

\* ------------------------------------------------ calculateDelay alone
\* calculateDelay applied to remaining durations around 0, around maxDelay,
\* around maxDelay / rate and beyond, read at two instants
DelayRange == 20
DelayDurations ==
    ((0 - DelayRange) .. DelayRange)
    \cup ((maxDelay - DelayRange) .. (maxDelay + DelayRange))
    \cup ((TruncDiv(10 * maxDelay, 9) - DelayRange)
              .. (TruncDiv(10 * maxDelay, 9) + DelayRange))
    \cup { 2 * maxDelay }
DelayCurrentTimes == { 0, MaxTime }

InitDelay ==
    /\ variant \in {"Temporal", "Date"}
    /\ zone = [kind |-> "none", jan |-> 0, jul |-> 0]
    /\ wall = 0
    /\ idLimit = 0
    /\ Idle
    /\ gState = "off" /\ gCur = 0 /\ gEpoch = 0 /\ gInt = 1
    /\ gOut = 0 /\ gTod = 0 /\ daily = NoDaily
    /\ \E d \in DelayDurations, c \in DelayCurrentTimes :
           delay = [state |-> "input", intervalTime |-> c + d,
                    currentTime |-> c, out |-> 0]

\* setTimeout(handler, rate * calculateDelay(intervalTime)) (Temporal),
\* setTimeout(handler, calculateDelay(intervalTime, currentTime)) (Date)
DelayArm ==
    /\ delay.state = "input"
    /\ delay' = [delay EXCEPT
                    !.state = "armed",
                    !.out = calculateDelay(delay.intervalTime,
                                           delay.currentTime)]
    /\ UNCHANGED <<variant, schedIdleVars, gState, gCur, gEpoch, gInt, gOut,
                   gTod, daily>>

SpecDelay == InitDelay /\ [][DelayArm]_vars

\* ================================================================ claims
Issued(id) == id < newID
Armed(id) == timer[id] # NoTimer
Firing(id) == running = id
CivilMinute(u) == (Local(zone, u) % DayTicks) \div TicksPerMin
CivilDay(u) == Local(zone, u) \div DayTicks
AnchorMinute(id) == 60 * epoch[id].hrs + epoch[id].mins
IntervalMinutes(id) == interval[id] \div TicksPerMin

\* C1: a clearDailyInterval(id) made while the timer of id is pending (its
\* handler not running) ends the schedule: no timer of id is pending, its
\* handler does not run and its callback has not been invoked since.
C1_CancelWhileArmed ==
    \A id \in Ids :
        cancelled[id] = "armed" =>
            /\ ~sinceCancel[id]
            /\ ~Armed(id)
            /\ ~Firing(id)

\* a schedule cancelled right after its creation, before any fire
C1_Witness ==
    \E id \in Ids :
        /\ Issued(id)
        /\ cancelled[id] = "armed"
        /\ lastF[id] = Never
        /\ IDs[id] = "absent"

\* C2 as claimed: after any clearDailyInterval(id), also one made by the
\* callback of id while its handler runs, no timer of id is armed and its
\* callback is not invoked.
C2_NoRearmAfterCancel ==
    \A id \in Ids :
        cancelled[id] # "no" => (~Armed(id) /\ ~sinceCancel[id])

\* C3: the coarse grid point is never before the current instant.
C3_ResultNotInPast == gState # "input" => gOut >= gCur

\* the current instant lies before the anchor and off the grid
C3_Witness ==
    /\ gState = "next"
    /\ gCur < gEpoch
    /\ (gEpoch - gCur) % gInt # 0
    /\ gOut > gCur

\* C4 as claimed: the grid point one interval before the result is strictly
\* in the past.
C4_PreviousStrictlyPast == gState # "input" => gOut - gInt < gCur

\* C4 amended: the grid point one interval before the result is not in the
\* future; it is the current instant exactly when that lies on a grid point
\* at or after the anchor.
C4_PreviousNotFuture ==
    gState # "input" =>
        /\ gOut - gInt <= gCur
        /\ (gOut - gInt = gCur) <=>
               (gCur >= gEpoch /\ (gCur - gEpoch) % gInt = 0)

\* the current instant on a grid point after the anchor
C4_Witness ==
    /\ gState = "next"
    /\ gCur > gEpoch
    /\ (gCur - gEpoch) % gInt = 0
    /\ gOut = gCur + gInt

\* the instant u reads, on the wall clock, as a point of the daily grid of id:
\* the anchor's time of day plus a whole number (negative included) of
\* intervals
OnCivilGrid(id, u) ==
    LET ai == IntervalMinutes(id) % minsInOneDay
    IN  /\ Local(zone, u) % TicksPerMin = 0
        /\ IF ai = 0 THEN CivilMinute(u) = AnchorMinute(id)
           ELSE (CivilMinute(u) - AnchorMinute(id)) % ai = 0

Created == ev.kind = "create"

\* C5 as claimed: the first fire instant of a schedule created at T is the
\* closest grid point at or after T.
C5_FirstFireAtOrAfter ==
    Created =>
        /\ ev.F >= ev.now
        /\ OnCivilGrid(ev.id, ev.F)
        /\ \A u \in ev.now .. ev.F - 1 : ~OnCivilGrid(ev.id, u)


\* ---- consecutive callback invocations of one schedule
Undisturbed(id) == jumps = 0 /\ cancelled[id] = "no"
FiredTwice(id) == prevF[id] # Never
Handled == ev.kind \in {"forward", "callback", "backward", "early"}

\* C6: for an interval that divides the day, in a zone without seasonal
\* switch, with no clock change and no cancellation, every callback invocation
\* is for a point of the civil grid {anchor + k * I mod 1440}, it is made at
\* that point (at most the timer's lateness after it), and the invocation
\* after the one for F is for F + I: no grid point twice, none left out.
C6_GridEnumeration ==
    \A id \in Ids :
        (/\ zone.kind = "none"
         /\ Undisturbed(id)
         /\ lastF[id] # Never
         /\ minsInOneDay % IntervalMinutes(id) = 0) =>
            /\ OnCivilGrid(id, lastF[id])
            /\ FiredTwice(id) => lastF[id] = prevF[id] + interval[id]
            /\ (ev.kind = "callback" /\ ev.id = id) =>
                   (ev.F = lastF[id] /\ ev.now >= ev.F
                    /\ ev.now <= ev.F + MaxLate)

\* anchor 1:00, 120 minutes: the invocation for 23:00, then the one for 1:00
\* of the next day
C6_Witness ==
    \E id \in Ids :
        /\ zone.kind = "none"
        /\ Undisturbed(id)
        /\ AnchorMinute(id) = 60
        /\ IntervalMinutes(id) = 120
        /\ FiredTwice(id)
        /\ CivilDay(prevF[id]) = 0 /\ CivilMinute(prevF[id]) = 23 * 60
        /\ CivilDay(lastF[id]) = 1 /\ CivilMinute(lastF[id]) = 60
        /\ ev.kind = "callback"

\* C7 as claimed: a handler that reads now >= nextFireInstant + interval,
\* equality included, rebuilds the schedule and does not invoke the callback.
C7_RebuildAtOrPastInterval ==
    (Handled /\ ev.now >= ev.F + interval[ev.id]) =>
        (ev.kind = "forward" /\ running = 0)

\* C7 amended: a handler that reads now > nextFireInstant + interval rebuilds
\* the schedule from the instant it read and does not invoke the callback;
\* the rebuilt nextFireInstant is not before that instant, so no missed point
\* is fired later.  At now = nextFireInstant + interval exactly the callback
\* is invoked, for nextFireInstant.
C7_RebuildPastInterval ==
    Handled =>
        /\ (ev.now > ev.F + interval[ev.id]) <=> (ev.kind = "forward")
        /\ (ev.now = ev.F + interval[ev.id]) =>
               (ev.kind = "callback" /\ running = ev.id /\ lastF[ev.id] = ev.F)
        /\ ev.kind = "forward" =>
               /\ running = 0
               /\ epoch[ev.id] = createEpoch(zone, epoch[ev.id].hrs,
                                             epoch[ev.id].mins, ev.now)
               /\ intervalTime[ev.id] =
                      createTimeInterval(variant, zone, interval[ev.id],
                                         epoch[ev.id], ev.now)
               /\ intervalTime[ev.id] >= ev.now

\* the clock set forward: the handler wakes more than an interval after the
\* instant its timer was armed for, and rebuilds
C7_Witness ==
    /\ ev.kind = "forward"
    /\ jumps = 1
    /\ ev.now > ev.F + interval[ev.id]
    /\ running = 0
    /\ intervalTime[ev.id] >= ev.now
    /\ Armed(ev.id)

\* C8: a handler that reads now < nextFireInstant - interval takes the
\* anchor's instant anew from the date it read, computes nextFireInstant
\* anew from the two, and does not invoke the callback; no other handler
\* takes that branch.
C8_RebuildOnBackwardJump ==
    Handled =>
        /\ (ev.now < ev.F - interval[ev.id]) <=> (ev.kind = "backward")
        /\ ev.kind = "backward" =>
               /\ running = 0
               /\ epoch[ev.id] = createEpoch(zone, epoch[ev.id].hrs,
                                             epoch[ev.id].mins, ev.now)
               /\ intervalTime[ev.id] =
                      createTimeInterval(variant, zone, interval[ev.id],
                                         epoch[ev.id], ev.now)
               /\ intervalTime[ev.id] >= ev.now

\* the clock set back over midnight: the anchor's instant moves to the day
\* before
C8_Witness ==
    /\ ev.kind = "backward"
    /\ jumps = 1
    /\ CivilDay(ev.now) = 0
    /\ CivilDay(ev.F) = 1
    /\ CivilDay(epoch[ev.id].UTCValue) = 0
    /\ running = 0
    /\ Armed(ev.id)

\* ---- the seasonal switch
\* the instant u is that of a civil grid point of id that the spring switch
\* skips: read with the offset before the switch it is a point of the grid,
\* and lies in the hour that does not exist
SkippedGridPoint(id, u) ==
    LET l == u + OffsetBefore(zone)
        m == (l % DayTicks) \div TicksPerMin
        ai == IntervalMinutes(id) % minsInOneDay
    IN  /\ zone.kind = "spring"
        /\ u >= Transition
        /\ u < Transition + Abs(zone.jul - zone.jan)
        /\ l % TicksPerMin = 0
        /\ IF ai = 0 THEN m = AnchorMinute(id)
           ELSE (m - AnchorMinute(id)) % ai = 0

\* the minute-aligned instants strictly between two instants
Between(a, b) ==
    { u \in { a + k * TicksPerMin : k \in 1 .. ((b - a) \div TicksPerMin) } :
          u < b }

\* C9 as claimed: across the spring switch, with no clock change and no
\* cancellation, a grid point in the skipped civil hour is not lost: of two
\* consecutive callback invocations the later one is for a later instant, and
\* no grid point of the skipped hour lies between the two (its invocation is
\* made at the instant that lies the seasonal offset after the civil time it
\* names).
C9_SpringForward ==
    \A id \in Ids :
        (/\ zone.kind = "spring"
         /\ Undisturbed(id)
         /\ FiredTwice(id)
         /\ minsInOneDay % IntervalMinutes(id) = 0) =>
            /\ lastF[id] > prevF[id]
            /\ \A u \in Between(prevF[id], lastF[id]) :
                   ~SkippedGridPoint(id, u)

\* C10 as claimed: across the fall switch, with no clock change and no
\* cancellation, a callback invocation for one occurrence of a civil date and
\* time is not followed by one for its later occurrence.
C10_DuplicatedHourOnce ==
    \A id \in Ids :
        (/\ zone.kind = "fall"
         /\ Undisturbed(id)
         /\ FiredTwice(id)
         /\ lastF[id] > prevF[id]) =>
            Local(zone, lastF[id]) # Local(zone, prevF[id])

\* C11: the first id returned is 1; every setDailyInterval call returns the
\* counter's value and moves the counter up by one, whatever was cancelled
\* before and whether or not a callback is running, and nothing else changes
\* the counter: the ids returned are 1, 2, 3, ... in call order, none twice.
C11_IdsIncrease ==
    /\ newID = 1
    /\ [][/\ newID' # newID =>
                (newID' = newID + 1 /\ ev'.kind = "create" /\ ev'.id = newID)
          /\ (ev'.kind = "create" /\ ev' # ev) =>
                (/\ ev'.id = newID
                 /\ ev'.id >= 1
                 /\ newID' = newID + 1
                 /\ \A j \in Ids : IDs[j] # "absent" => j < ev'.id)]_vars

\* the second schedule made from inside the callback of the first, after the
\* callback cancelled the first
C11_Witness ==
    /\ Created
    /\ ev.id = 2
    /\ newID = 3
    /\ running = 1
    /\ cancelled[1] = "firing"
    /\ IDs[1] = "absent"
    /\ IDs[2] = "current"

\* C12: a setDailyInterval call with an interval argument below 1 is carried
\* out: it returns the next id and leaves the schedule in the state that the
\* call with interval 1 and the same starting time leaves it in (interval,
\* anchor, nextFireInstant, timer), from which the two run alike.
C12_ClampedToOne ==
    (Created /\ arg < 1) =>
        LET id == ev.id
            one == convertMinsToNs(1)
            ep == createEpoch(zone, epoch[id].hrs, epoch[id].mins, ev.now)
            it == createTimeInterval(variant, zone, one, ep, ev.now)
        IN  /\ newID = id + 1
            /\ interval[id] = one
            /\ epoch[id] = ep
            /\ intervalTime[id] = it
            /\ it # NoInstant
            /\ IDs[id] = "current"
            /\ timer[id] = calculateDelay(it, ev.now)
            /\ outstanding[id] = 1

\* called with interval -1 between two minutes: armed for the next minute
C12_Witness ==
    /\ Created
    /\ arg = 0 - 1
    /\ interval[ev.id] = TicksPerMin
    /\ ev.now % TicksPerMin # 0
    /\ intervalTime[ev.id] - ev.now < TicksPerMin
    /\ intervalTime[ev.id] > ev.now
    /\ Armed(ev.id)

\* C13, for ids without entry in IDs only (never issued, or cancelled and not
\* armed again since): a clearDailyInterval(id) leaves the pending timers of
\* all schedules, the timers outstanding and IDs as they are; and for every
\* id, a second clearDailyInterval(id) right after the first changes nothing
\* more.
C13_CancelUnknownId ==
    \A id \in Ids :
        /\ IDs[id] = "absent" =>
               /\ clearTimeout(timer, IDs, id) = timer
               /\ clearTimeoutCount(outstanding, IDs, id) = outstanding
               /\ IDsDelete(IDs, id) = IDs
        /\ clearTimeout(clearTimeout(timer, IDs, id), IDsDelete(IDs, id), id)
               = clearTimeout(timer, IDs, id)
        /\ clearTimeoutCount(clearTimeoutCount(outstanding, IDs, id),
                             IDsDelete(IDs, id), id)
               = clearTimeoutCount(outstanding, IDs, id)
        /\ IDsDelete(IDsDelete(IDs, id), id) = IDsDelete(IDs, id)

\* C13 as claimed: a clearDailyInterval(id) for an id that was never issued or
\* was cancelled before changes nothing.
C13_CancelAlreadyCancelled ==
    \A id \in Ids :
        (~Issued(id) \/ cancelled[id] # "no") =>
            /\ clearTimeout(timer, IDs, id) = timer
            /\ clearTimeoutCount(outstanding, IDs, id) = outstanding
            /\ IDsDelete(IDs, id) = IDs

\* the first schedule cancelled while armed, the second one armed: a further
\* clearDailyInterval(1) finds no entry
C13_Witness ==
    /\ newID = 3
    /\ cancelled[1] = "armed"
    /\ IDs[1] = "absent"
    /\ ~Armed(1)
    /\ IDs[2] = "current"
    /\ Armed(2)
    /\ lastF[2] # Never

\* C14 as claimed: a setDailyInterval call with a startingTime that has a
\* non-numeric component raises no error; it returns the next id and
\* registers a schedule.
C14_MalformedRaisesNothing ==
    ev.kind \in {"malformed", "RangeError"} =>
        /\ ev.kind = "malformed"
        /\ newID = ev.id + 1
        /\ IDs[ev.id] = "current"
        /\ Armed(ev.id)

\* C15 as claimed: after a stop(), also one made from inside the user
\* function, no timeout of the object is pending and the user function is not
\* executed again.
C15_StopStops ==
    daily.stopped # "no" => (daily.pending = 0 /\ ~daily.ranSinceStop)

\* C16 as claimed: a #createInterval made when the time of day is the
\* interval start time arms the timeout for one full interval (less the part
\* of the minute gone by).
C16_FullIntervalAtStartTime ==
    (/\ daily.state = "armed"
     /\ daily.currentTime = daily.intervalStartTime) =>
        daily.timeRemaining
            = TicksPerMin * daily.interval - daily.currentMs

\* C17 as claimed: after every computation of nextFireInstant (by
\* setDailyInterval, after a callback, by a rebuild) it is a point of the
\* civil grid, not before the instant read, and no point of the civil grid
\* lies between that instant (included) and nextFireInstant (excluded).
C17_SmallestGridPoint ==
    ev.kind \in {"create", "fired", "forward", "backward"} =>
        LET id == ev.id
            F == intervalTime[id]
        IN  /\ F >= ev.now
            /\ OnCivilGrid(id, F)
            /\ \A u \in ev.now .. F - 1 : ~OnCivilGrid(id, u)

\* C18: every id has at most one setTimeout timer outstanding; an issued id
\* that was never cancelled has exactly one, stored in IDs, whenever its
\* handler is not running, and none while its handler runs the callback (the
\* handler arms the next one only when its own timer has expired); an id not
\* yet issued has none.  The closure state (interval, intervalTime, epoch) is
\* one per id.
C18_OneTimerPerSchedule ==
    \A id \in Ids :
        /\ outstanding[id] \in {0, 1}
        /\ (outstanding[id] = 1) <=> Armed(id)
        /\ ~Issued(id) => (outstanding[id] = 0 /\ IDs[id] = "absent")
        /\ (Issued(id) /\ cancelled[id] = "no") =>
               IF Firing(id)
               THEN outstanding[id] = 0 /\ IDs[id] = "fired"
               ELSE outstanding[id] = 1 /\ IDs[id] = "current"

\* two schedules, both armed, the first armed again by its handler after a
\* callback invocation
C18_Witness ==
    /\ newID = 3
    /\ cancelled[1] = "no" /\ cancelled[2] = "no"
    /\ lastF[1] # Never
    /\ running = 0
    /\ outstanding[1] = 1 /\ outstanding[2] = 1
    /\ Armed(1) /\ Armed(2)

\* the handler reads an instant before intervalTime, at most interval before
EarlyWake(id, late) ==
    /\ Expire(id, late)
    /\ wall + timer[id] + late < intervalTime[id]
    /\ intervalTime[id] - (wall + timer[id] + late) <= interval[id]

\* C19: a handler that reads an instant T before intervalTime F, with
\* F - T <= interval, invokes no callback and leaves intervalTime, the epoch
\* (its instant included) and the interval as they were; it arms one timer for
\* the id and stores it in IDs, and nothing else of any schedule changes but
\* the time that has passed for the other pending timers.
C19_EarlyWakeRearmsOnly ==
    [][\A id \in Ids, late \in 0 .. MaxLate :
          EarlyWake(id, late) =>
              /\ running' = 0
              /\ ev'.kind = "early"
              /\ intervalTime' = intervalTime
              /\ epoch' = epoch
              /\ interval' = interval
              /\ lastF' = lastF /\ prevF' = prevF
              /\ newID' = newID
              /\ cancelled' = cancelled
              /\ IDs'[id] = "current"
              /\ timer'[id] = calculateDelay(intervalTime[id], wall')
              /\ outstanding'[id] = 1
              /\ \A j \in Ids \ {id} :
                     /\ IDs'[j] = IDs[j]
                     /\ outstanding'[j] = outstanding[j]
                     /\ timer'[j] = Elapse(id, timer[id] + late)[j]]_vars

\* the handler has woken before intervalTime and armed the next timer
C19_Witness ==
    /\ ev.kind = "early"
    /\ ev.now < ev.F
    /\ ev.F - ev.now <= interval[ev.id]
    /\ running = 0
    /\ Armed(ev.id)
    /\ IDs[ev.id] = "current"
    /\ intervalTime[ev.id] = ev.F

\* the smaller of two durations
Min(a, b) == IF a < b THEN a ELSE b

\* C20, as stated: the delay armed is rate * (F - T), capped at maxDelay
\* afterwards, for every remaining duration F - T.
C20_RateThenClamp ==
    delay.state = "armed" =>
        delay.out = Min(CeilRate(delay.intervalTime - delay.currentTime),
                        maxDelay)

\* C20, as the code has it: the remaining duration F - T is capped at maxDelay
\* first and the rate applied to the result, so the delay armed is the least
\* number of ticks not below 0.9 * min(F - T, maxDelay), and 0 when F - T is
\* not positive; it never exceeds 0.9 * maxDelay rounded up.
C20_ClampThenRate ==
    delay.state = "armed" =>
        LET d == delay.intervalTime - delay.currentTime
            m == Min(d, maxDelay)
        IN  IF d <= 0 THEN delay.out = 0
            ELSE /\ 10 * delay.out >= 9 * m
                 /\ 10 * (delay.out - 1) < 9 * m

\* a delay armed for a remaining duration between maxDelay and maxDelay / rate
C20_Witness ==
    /\ delay.state = "armed"
    /\ delay.intervalTime - delay.currentTime > maxDelay
    /\ 9 * (delay.intervalTime - delay.currentTime) <= 10 * maxDelay
    /\ delay.out < maxDelay

\* the handler up to the callback's invocation: which expiries invoke it
HandlerInvokes(id, late) ==
    Expire(id, late) =>
        LET T == wall + timer[id] + late
            F == intervalTime[id]
            I == interval[id]
        IN  IF F <= T /\ ~(F + I < T)
            THEN /\ running' = id
                 /\ ev'.kind = "callback"
                 /\ lastF'[id] = F
                 /\ prevF'[id] = lastF[id]
                 /\ intervalTime'[id] = F + I
                 /\ timer'[id] = NoTimer
                 /\ outstanding'[id] = 0
            ELSE /\ running' = 0
                 /\ lastF' = lastF /\ prevF' = prevF

\* the handler after the callback has returned
HandlerCompensates(id, dur) ==
    CallbackReturns(id, dur) =>
        LET cur == IF variant = "Temporal" THEN wall' ELSE hnow
        IN  /\ running = id /\ running' = 0
            /\ intervalTime[id] = lastF[id] + interval[id]
            /\ intervalTime'[id] =
                   adjustIntervalTime(variant, zone, lastF[id] + interval[id],
                                      interval[id], epoch[id], cur)
            /\ intervalTime'[id] >= cur
            /\ timer'[id] = calculateDelay(intervalTime'[id], cur)
            /\ IDs'[id] = "current"
            /\ outstanding'[id] = 1
            /\ lastF' = lastF /\ prevF' = prevF

\* C21: a handler that reads an instant T with F <= T and not F + I < T
\* invokes the callback, once, for F, with intervalTime advanced to F + I; a
\* handler that reads any other T invokes none.  When the callback has
\* returned, the handler sets intervalTime to adjustIntervalTime of F + I,
\* arms the timer for it and ends: one expiry, at most one invocation.
C21_CallbackOncePerExpiry ==
    [][\A id \in Ids :
          /\ \A late \in 0 .. MaxLate : HandlerInvokes(id, late)
          /\ \A dur \in 0 .. MaxCallback : HandlerCompensates(id, dur)]_vars

\* the handler has invoked the callback for F, set intervalTime and armed the
\* timer again
C21_Witness ==
    /\ ev.kind = "fired"
    /\ running = 0
    /\ lastF[ev.id] # Never
    /\ lastF[ev.id] <= ev.now
    /\ intervalTime[ev.id] = ev.F
    /\ ev.F >= lastF[ev.id] + interval[ev.id]
    /\ Armed(ev.id)

\* the last step ended with a call of adjustIntervalTime: setDailyInterval,
\* the handler after its callback, or a rebuild
Adjusted == ev.kind \in {"create", "fired", "forward", "backward"}

\* the candidate that call was handed: intervalTime advanced by the interval
\* after a callback, the coarse grid point otherwise
Candidate ==
    IF ev.kind = "fired" THEN lastF[ev.id] + interval[ev.id]
    ELSE formulaNext(variant, ev.now, interval[ev.id], epoch[ev.id].UTCValue)

\* the candidate with its time of day rewritten, by the outermost call
Rewritten ==
    rewriteIntervalTime(variant, zone, Candidate, interval[ev.id], epoch[ev.id])

\* C22, as stated: the instant adjustIntervalTime returns is later than the
\* current instant it compares against.
C22_ReturnsFuture == Adjusted => intervalTime[ev.id] > ev.now

\* C22, as the code has it: the instant returned is not before the current
\* instant.  A rewritten instant that is not before the current one, equal to
\* it included, is returned as it is; one that is before it and is later than
\* it with the seasonal offset added is returned with the offset added.
C22_ReturnsNotPast ==
    Adjusted =>
        /\ intervalTime[ev.id] >= ev.now
        /\ Rewritten >= ev.now => intervalTime[ev.id] = Rewritten
        /\ (/\ Rewritten < ev.now
            /\ Rewritten + getDaylightSavingsOffset(variant, zone) > ev.now)
           => intervalTime[ev.id]
                  = Rewritten + getDaylightSavingsOffset(variant, zone)

\* the rewritten instant is the current instant, and is what was returned
C22_Witness ==
    /\ Adjusted
    /\ Rewritten = ev.now
    /\ intervalTime[ev.id] = ev.now
    /\ Armed(ev.id)

\* the nested calls the last call of adjustIntervalTime made of itself
NestedCalls ==
    adjustIntervalTimeDepth(variant, zone, Candidate, interval[ev.id],
                            epoch[ev.id], ev.now, 0)

\* the intervals begun between the candidate and the current instant
IntervalsBehind ==
    IF ev.now > Candidate
    THEN (ev.now - Candidate) \div interval[ev.id] + 1
    ELSE 0

\* C23, as stated: adjustIntervalTime returns, after at most 2 nested calls of
\* itself.
C23_DepthAtMostTwo ==
    Adjusted => (intervalTime[ev.id] # NoInstant /\ NestedCalls <= 2)

\* C23, as the code has it: adjustIntervalTime returns; it nests at most once
\* when the candidate is not before the current instant, and otherwise at
\* most once more than there are intervals begun between the candidate and
\* the current instant, a number that grows with the time the callback ran;
\* the Date implementation, which compares with the instant read before the
\* callback, nests at most once.
C23_DepthFollowsDelay ==
    Adjusted =>
        /\ intervalTime[ev.id] # NoInstant
        /\ NestedCalls <= IntervalsBehind + 1
        /\ variant = "Date" => NestedCalls <= 1

\* a callback that ran for more than three intervals: adjustIntervalTime
\* nested more than twice and returned
C23_Witness ==
    /\ ev.kind = "fired"
    /\ IntervalsBehind >= 3
    /\ NestedCalls > 2
    /\ intervalTime[ev.id] >= ev.now
    /\ Armed(ev.id)

\* no seasonal switch lies between the current instant and the candidate
NoSwitchBetween ==
    \/ zone.kind = "none"
    \/ (ev.now < Transition /\ Candidate < Transition)
    \/ (ev.now >= Transition /\ Candidate >= Transition)

\* C24: when no seasonal switch lies between the current instant and the
\* candidate, the instant adjustIntervalTime returns reads, on the wall
\* clock, an hour and minute of the time-of-day grid (the anchor's time of
\* day plus a multiple of interval mod 1440; the anchor's time of day when
\* that is 0), also after a late handler or a long callback and in a zone
\* with a seasonal offset.
C24_OnGridWithoutSwitch ==
    (Adjusted /\ NoSwitchBetween) => OnCivilGrid(ev.id, intervalTime[ev.id])

\* the interval of id is a whole number of days
WholeDays(id) == IntervalMinutes(id) % minsInOneDay = 0

\* the anchor's time of day is one the wall clock skips at the switch
AnchorSkipped(id) ==
    /\ zone.kind = "spring"
    /\ AnchorMinute(id) * TicksPerMin >= (Transition + OffsetBefore(zone)) % DayTicks
    /\ AnchorMinute(id) * TicksPerMin < (Transition + OffsetAfter(zone)) % DayTicks

\* C25: a schedule whose interval is a whole number of days has its callback
\* invoked only for instants that read the anchor's hour and minute on the
\* wall clock (an anchor the wall clock skips at the switch left aside).
C25_WholeDaysFireAtAnchor ==
    \A id \in Ids :
        (lastF[id] # Never /\ WholeDays(id) /\ ~AnchorSkipped(id)) =>
            CivilMinute(lastF[id]) = AnchorMinute(id)

\* C26, as stated: the coarse grid point is n * interval + anchor with
\* n = floor(delta / interval) + 1 for delta >= 0 and n = floor(delta /
\* interval), rounded toward minus infinity, for delta < 0.
C26_FloorDivision ==
    gState # "input" =>
        LET delta == gCur - gEpoch
            n == IF delta >= 0 THEN delta \div gInt + 1 ELSE delta \div gInt
        IN  gOut = n * gInt + gEpoch

\* C26, as the code has it: the quotient is rounded toward zero; for delta < 0
\* n = -floor(-delta / interval), which for a delta that is no multiple of the
\* interval is one more than floor(delta / interval).
C26_TruncatingDivision ==
    gState # "input" =>
        LET delta == gCur - gEpoch
            n == IF delta >= 0 THEN delta \div gInt + 1
                 ELSE 0 - ((0 - delta) \div gInt)
        IN  gOut = n * gInt + gEpoch

\* a negative delta that is no multiple of the interval: the grid point
\* computed is the one after the current time, not the one before
C26_Witness ==
    /\ gState # "input"
    /\ gCur < gEpoch
    /\ (gEpoch - gCur) % gInt # 0
    /\ gOut > gCur
    /\ gOut - gInt < gCur

\* C27, as stated: on the same current time, anchor and interval the
\* computation on the time of day returns the grid point the computation on
\* instants returns, which is not before the current time.
C27_SameGridPoint ==
    gState = "identity" => (gTod = gOut /\ gTod >= gCur)

\* C27, as the code has it: the two return the same grid point only for a
\* current time before the anchor.  From the anchor on, the computation on the
\* time of day returns the grid point at or before the current time, one
\* interval before the one the computation on instants returns.
C27_TimeOfDayRoundsToAnchor ==
    gState = "identity" =>
        IF gCur < gEpoch
        THEN gTod = gOut /\ gTod >= gCur
        ELSE /\ gTod = gOut - gInt
             /\ gTod <= gCur
             /\ gCur < gTod + gInt

\* a current time after the anchor and between two grid points: the time of
\* day computed is the grid point before it
C27_Witness ==
    /\ gState = "identity"
    /\ gCur > gEpoch
    /\ (gCur - gEpoch) % gInt # 0
    /\ gTod < gCur
    /\ gOut > gCur

\* everything the program keeps for the schedule id is as it was; its pending
\* timer is the same timer, e ticks nearer to its expiry
ScheduleUntouched(id, e) ==
    /\ intervalTime'[id] = intervalTime[id]
    /\ epoch'[id] = epoch[id]
    /\ interval'[id] = interval[id]
    /\ IDs'[id] = IDs[id]
    /\ outstanding'[id] = outstanding[id]
    /\ (timer'[id] = NoTimer) <=> (timer[id] = NoTimer)
    /\ timer[id] # NoTimer =>
           timer'[id] = (IF timer[id] > e THEN timer[id] - e ELSE 0)
    /\ lastF'[id] = lastF[id]
    /\ cancelled'[id] = cancelled[id]

\* a step of the schedule id1: its timer expires, its callback returns, it is
\* cancelled or created
StepOf(id1) ==
    \/ \E late \in 0 .. MaxLate : Expire(id1, late)
    \/ \E dur \in 0 .. MaxCallback : CallbackReturns(id1, dur)
    \/ clearDailyInterval(id1)
    \/ (newID = id1 /\ Create)

\* C28: an expiry, a callback invocation, a rebuild, a cancel or the creation
\* of one schedule leaves intervalTime, epoch, interval, the pending timer and
\* the entry in IDs of every other schedule as they were.
C28_SchedulesIndependent ==
    [][\A id1 \in Ids, id2 \in Ids :
          (id1 # id2 /\ StepOf(id1)) => ScheduleUntouched(id2, wall' - wall)]_vars

\* the first schedule has fired and armed its timer again while the second is
\* pending
C28_Witness ==
    /\ ev.kind = "fired" /\ ev.id = 1
    /\ Issued(2) /\ cancelled[2] = "no"
    /\ Armed(1) /\ Armed(2)
    /\ IDs[2] = "current"
    /\ intervalTime[2] > wall

\* C29: from its creation on, the anchor's hour and minute and the interval
\* of a schedule stay as setDailyInterval set them; the anchor's instant
\* changes in a rebuild only (a handler that finds the clock more than an
\* interval away from intervalTime), and every other step of the schedule
\* changes intervalTime, the timer and the entry in IDs at most.
C29_AnchorAndIntervalFixed ==
    [][\A id \in Ids :
          Issued(id) =>
              /\ interval'[id] = interval[id]
              /\ epoch'[id].hrs = epoch[id].hrs
              /\ epoch'[id].mins = epoch[id].mins
              /\ epoch'[id].UTCValue # epoch[id].UTCValue =>
                     /\ ev'.id = id
                     /\ ev'.kind \in {"forward", "backward"}]_vars

\* a rebuild has given the anchor a new instant, hour, minute and interval
\* being those of the creation
C29_Witness ==
    /\ ev.kind \in {"forward", "backward"}
    /\ epoch[ev.id].UTCValue
           # withPlainTime(zone, ev.now - (24 * 60) * TicksPerMin,
                           epoch[ev.id].hrs, epoch[ev.id].mins)
    /\ epoch[ev.id].UTCValue
           = withPlainTime(zone, ev.now, epoch[ev.id].hrs, epoch[ev.id].mins)
    /\ interval[ev.id] = convertMinsToNs(arg)
    /\ [hrs |-> epoch[ev.id].hrs, mins |-> epoch[ev.id].mins] \in StartingTimes
    /\ lastF[ev.id] # Never

\* C30: IDs holds an entry only for an id that setDailyInterval has issued
\* and that no clearDailyInterval has cancelled since, whatever handlers and
\* callbacks ran after the clearDailyInterval.
C30_RegistryOnlyLive ==
    \A id \in Ids :
        IDs[id] # "absent" => (Issued(id) /\ cancelled[id] = "no")

\* C31: a schedule whose timer is pending for an intervalTime inside the
\* observed window has its callback invoked in the end: the timers armed for
\* rate * the remaining duration do not wake the handler before intervalTime
\* for ever.
C31_ArmedLeadsToCallback ==
    \A id \in Ids :
        (Armed(id) /\ intervalTime[id] <= MaxTime) ~> Firing(id)

\* the callback is invoked a second time, at or after intervalTime, at the
\* end of a chain of timers armed after the first invocation
C31_Witness ==
    /\ Firing(1)
    /\ ev.kind = "callback"
    /\ ev.now >= ev.F
    /\ prevF[1] # Never
    /\ lastF[1] = ev.F
    /\ jumps = 0 /\ cancelled[1] = "no"

\* C32: the callback is never invoked early: the expiry that invokes the
\* callback of a schedule reads a current instant T with intervalTime <= T,
\* for the intervalTime held when the timer expired, also when the timer
\* expires late or the system clock was set in between.
C32_NeverInvokedEarly ==
    [][\A id \in Ids :
          (~Firing(id) /\ Firing(id)') =>
              /\ intervalTime[id] <= wall'
              /\ lastF'[id] = intervalTime[id]
              /\ hnow' = wall']_vars

\* a callback invoked after its intervalTime, the system clock having been
\* set while the schedule ran
C32_Witness ==
    /\ Firing(1)
    /\ ev.kind = "callback" /\ ev.id = 1
    /\ ev.F < ev.now
    /\ hnow = ev.now
    /\ jumps > 0

\* C33: with no clock change, no seasonal switch, no cancellation and
\* timers that expire on time, two consecutive callback invocations of a
\* schedule are at most one interval apart, also for an interval of which
\* a day is no multiple.
C33_GapAtMostInterval ==
    \A id \in Ids :
        (FiredTwice(id) /\ Undisturbed(id) /\ zone.kind = "none") =>
            lastF[id] - prevF[id] <= interval[id]

\* C34: while the system clock is not set, the intervalTime values for which
\* the callback of a schedule is invoked increase strictly: the compensated
\* value of intervalTime + interval is later than intervalTime, and no
\* instant is fired twice.
C34_FiresStrictlyIncrease ==
    \A id \in Ids :
        (FiredTwice(id) /\ jumps = 0) => lastF[id] > prevF[id]

\* the instant the delay of a timer armed in this step is measured against:
\* the currentTime handed to customInterval (Date), the clock read of
\* calculateDelay (Temporal)
MeasuredAgainst == IF variant = "Date" THEN ev'.now ELSE wall'

\* this step arms a timer for the schedule id
Arms(id) ==
    /\ ev'.id = id
    /\ ev'.kind \in {"create", "early", "forward", "backward", "fired"}
    /\ timer'[id] # NoTimer

\* C35: every timer the scheduler arms has a delay between 0 and maxDelay:
\* when customInterval arms, on creation, after a callback, after an early
\* wake and after a rebuild, intervalTime is not before the instant the delay
\* is measured against.
C35_DelayInRange ==
    [][\A id \in Ids :
          Arms(id) =>
              /\ intervalTime'[id] - MeasuredAgainst >= 0
              /\ timer'[id] >= 0
              /\ timer'[id] <= maxDelay]_vars

\* the minutes #getMsUntilIntervalTime used for timeRemaining
DailyDelta == (daily.timeRemaining + daily.currentMs) \div TicksPerMin

\* C36: DailyInterval: the timeout armed targets the computed next interval
\* time: the minutes used for timeRemaining, added to the current time of
\* day, give currentInterval (mod one day), and they are more than 0 and at
\* most the interval, for an interval that divides a day or not.
C36_TimeoutTargetsCurrentInterval ==
    daily.state = "armed" =>
        /\ (daily.currentTime + DailyDelta) % 1440 = daily.currentInterval
        /\ 0 < DailyDelta
        /\ DailyDelta <= daily.interval

\* C37: the test for a clock set back compares intervalTime - time with one
\* interval in the unit of intervalTime - time: a handler that reads an
\* instant before intervalTime, and not more than one interval before it,
\* rebuilds nothing and arms again for the same intervalTime.
C37_EarlyWakeWithinIntervalKeeps ==
    [][(/\ ev'.kind \in {"early", "forward", "backward", "callback"}
        /\ ev'.now < ev'.F
        /\ ev'.F - ev'.now <= interval[ev'.id])
          => (/\ ev'.kind = "early"
              /\ epoch' = epoch
              /\ intervalTime' = intervalTime)]_vars

====
